---- MODULE Spec2Model ----
(***************************************************************************)
(* Model of the compliance audit engine of intelligent-auditor-iam:       *)
(*   - OrchestratorService (orchestrator/orchestrator_api.py): the         *)
(*     process-wide audit_status / current_audit registry, start_audit,    *)
(*     the background thread body and the synchronous quick_audit route;   *)
(*   - ComplianceOrchestrator.run_full_compliance_audit                    *)
(*     (orchestrator/compliance_orchestrator.py): health check, the four   *)
(*     data-source fetches, the analysis loops and the summary.            *)
(* The Flask server handles requests on separate threads, so every         *)
(* statement that reads or writes the shared registry is its own step.     *)
(*                                                                         *)
(* Spec      the service: start_audit and quick_audit requests on the      *)
(*           server threads, and the background threads.                   *)
(* FairSpec  Spec with every background thread scheduled (weak fairness).  *)
(* AuditSpec the synchronous calls of run_full_compliance_audit alone,     *)
(*           with the probe attached to one of them, so that what the      *)
(*           call met at the data source is on record next to its result.  *)
(* ReadSpec  start requests, background threads and GET /audit/status,     *)
(*           whose two reads of the registry are two steps.                *)
(* ClockSpec Spec with the wall clock advancing between the steps.         *)
(* AnalyzerSpec the ComplianceAnalyzer applied to one drawn record (once,  *)
(*           and once more at a later moment), and the two analysis loops  *)
(*           and the summary of an audit applied to drawn lists of items.  *)
(***************************************************************************)
EXTENDS Integers, Sequences, FiniteSets, TLC

\* ---------------------------------------------------------------- bounds
NumHandlers == 2      \* server threads that handle requests concurrently
MaxRuns == 2          \* calls of run_full_compliance_audit in one behaviour
MaxRecords == 1       \* items the data source returns for one pull
MaxItems == 6         \* items of one kind in the long pull of an audit
MaxClock == 3         \* half seconds the wall clock advances in one behaviour

Handlers == 1..NumHandlers
Runs == 1..MaxRuns

VARIABLES
    orchestrator,     \* OrchestratorService.orchestrator is not None
    audit_status,     \* OrchestratorService.audit_status
    current_audit,    \* OrchestratorService.current_audit
    audit_results,    \* ComplianceOrchestrator.audit_results
    handlers,         \* per server thread: position in its route, response
    runs,             \* per call of run_full_compliance_audit: its frame
    probe,            \* history: what one watched call met and did
    trial,            \* one drawn input of the analyzer and what it returned
    clock             \* the wall clock, in half seconds

vars == <<orchestrator, audit_status, current_audit, audit_results,
          handlers, runs, probe, trial, clock>>

\* ---------------------------------------------------------------- values
None == [status |-> "None", run |-> 0, message |-> "None"]

\* who called run_full_compliance_audit: the thread start_audit created (0),
\* or server thread h > 0 from quick_audit
Background == 0

\* a frame: pc, the caller, audit_start and the value the call returns
NoRun == [pc |-> "none", owner |-> Background, audit_start |-> 0,
          result |-> None]

\* The probe is a history variable attached to call `run` (0: to no call).
\* It records the health status the call saw, which fetches handed back a
\* failure value, how many fetches were issued, how many records were
\* analysed and the status of the result the call returned.
NoProbe == [run |-> 0, health |-> "unknown", failed |-> {}, pulls |-> 0,
            analysed |-> 0, status |-> "none"]

Fetches == {"identities", "access_records", "violations", "risk_summary"}

\* the fetches among the four that failed, given their success flags
FailedFetches(io, ao, vo, ro) ==
    {f \in Fetches : \/ f = "identities" /\ ~io
                     \/ f = "access_records" /\ ~ao
                     \/ f = "violations" /\ ~vo
                     \/ f = "risk_summary" /\ ~ro}

Observe(r, seen) == probe' = IF probe.run = r THEN seen ELSE probe

NewRun(owner) == [NoRun EXCEPT !.pc = "health", !.owner = owner]

IdleHandler == [pc |-> "idle", resp |-> "none"]

Responding(resp) == [pc |-> "respond", resp |-> resp]

\* what SailPointConnector.health_check can hand back as health["status"]
HealthStatuses == {"healthy", "unhealthy"}

Active(r) == runs[r].pc \notin {"none", "finished"}

\* the call server thread h is inside (quick_audit)
RunOf(h) == CHOOSE r \in Runs : runs[r].owner = h /\ Active(r)

\* the frame the next call gets
FreeRun == CHOOSE r \in Runs :
               runs[r].pc = "none" /\ \A q \in Runs : runs[q].pc = "none" => r <= q

\* no analysis on trial
NoTrial == [phase |-> "off"]

\* ------------------------------------------------- OrchestratorService
Init ==
    /\ orchestrator \in BOOLEAN
    /\ audit_status = "idle"
    /\ current_audit = None
    /\ audit_results = <<>>
    /\ handlers = [h \in Handlers |-> IdleHandler]
    /\ runs = [r \in Runs |-> NoRun]
    /\ probe = NoProbe
    /\ trial = NoTrial
    /\ clock = 0

\* calls of run_full_compliance_audit already made or committed to
Committed ==
    Cardinality({r \in Runs : runs[r].pc # "none"})
    + Cardinality({h \in Handlers :
                     handlers[h].pc \in {"start_53", "start_54", "start_57"}})

\* a guard that compares with a status the service never holds
AlreadyRunningMisspelt(status) == status = "Running"

\* a guard that lets a start through from the initial status only
AlreadyRunningUnlessIdle(status) == status # "idle"

\* start_audit, line 47: the guard that rejects a start
AlreadyRunning(status) == status = "running"

\* start_audit, lines 47-51: the two early returns
StartAuditCheck(h) ==
    /\ handlers[h].pc = "idle"
    /\ IF AlreadyRunning(audit_status)
         THEN handlers' = [handlers EXCEPT ![h] = Responding("already_in_progress")]
         ELSE IF ~orchestrator
         THEN handlers' = [handlers EXCEPT ![h] = Responding("not_available")]
         ELSE /\ Committed < MaxRuns
              /\ handlers' = [handlers EXCEPT ![h].pc = "start_53"]
    /\ UNCHANGED <<orchestrator, audit_status, current_audit, audit_results, runs, probe, trial, clock>>

\* start_audit, line 53
StartAuditSetRunning(h) ==
    /\ handlers[h].pc = "start_53"
    /\ audit_status' = "running"
    /\ handlers' = [handlers EXCEPT ![h].pc = "start_54"]
    /\ UNCHANGED <<orchestrator, current_audit, audit_results, runs, probe, trial, clock>>

\* start_audit, line 54
StartAuditClear(h) ==
    /\ handlers[h].pc = "start_54"
    /\ current_audit' = None
    /\ handlers' = [handlers EXCEPT ![h].pc = "start_57"]
    /\ UNCHANGED <<orchestrator, audit_status, audit_results, runs, probe, trial, clock>>

\* start_audit, lines 57-65: start the thread, return "started"
StartAuditSpawn(h) ==
    /\ handlers[h].pc = "start_57"
    /\ runs' = [runs EXCEPT ![FreeRun] = NewRun(Background)]
    /\ handlers' = [handlers EXCEPT ![h] = Responding("started")]
    /\ UNCHANGED <<orchestrator, audit_status, current_audit, audit_results, probe, trial, clock>>

\* the route hands its response to the client; the thread is free again
Respond(h) ==
    /\ handlers[h].pc = "respond"
    /\ handlers' = [handlers EXCEPT ![h] = IdleHandler]
    /\ UNCHANGED <<orchestrator, audit_status, current_audit, audit_results, runs, probe, trial, clock>>

\* ------------------------------------- run_full_compliance_audit (one call)
ErrorResult(r, msg) == [status |-> "error", run |-> r, message |-> msg]

\* line 443: f"audit_{int(audit_start.timestamp())}", the whole seconds of
\* the start time
AuditId(audit_start) == audit_start \div 2

CompletedResult(r) ==
    [status |-> "completed", run |-> r, message |-> "None",
     audit_id |-> AuditId(runs[r].audit_start)]

\* line 384: health.get("status") != "healthy"
Unhealthy(status) == status # "healthy"

\* the check with `and` in place of `or`
CollectFailedBoth(identOk, accessOk) == ~identOk /\ ~accessOk

\* line 399: not identities_response.get("success") or not access_response.get("success")
CollectFailed(identOk, accessOk) == ~identOk \/ ~accessOk

\* lines 383-389: the health check and its early return. The connector
\* catches only requests' own exceptions; anything else propagates.
HealthCheck(r) ==
    /\ runs[r].pc = "health"
    /\ \/ \E s \in HealthStatuses :
            IF Unhealthy(s)
              THEN /\ runs' = [runs EXCEPT ![r].pc = "returned",
                         ![r].result = ErrorResult(r, "SailPoint API unavailable")]
                   /\ Observe(r, [probe EXCEPT !.health = s, !.status = "error"])
              ELSE /\ runs' = [runs EXCEPT ![r].pc = "collect"]
                   /\ Observe(r, [probe EXCEPT !.health = s])
       \/ /\ runs' = [runs EXCEPT ![r].pc = "raised"]
          /\ Observe(r, [probe EXCEPT !.status = "raised"])
    /\ UNCHANGED <<orchestrator, audit_status, current_audit, audit_results, handlers, trial, clock>>

\* lines 391-404: audit_start is read off the clock, then the four fetches,
\* then the check of two of them
CollectData(r) ==
    /\ runs[r].pc = "collect"
    /\ \/ \E io, ao, vo, ro \in BOOLEAN :
            IF CollectFailed(io, ao)
              THEN /\ runs' = [runs EXCEPT ![r].pc = "returned",
                         ![r].audit_start = clock,
                         ![r].result = ErrorResult(r, "Failed to collect data from SailPoint")]
                   /\ Observe(r, [probe EXCEPT !.failed = FailedFetches(io, ao, vo, ro),
                                               !.pulls = 4, !.status = "error"])
              ELSE /\ runs' = [runs EXCEPT ![r].pc = "analyze",
                                            ![r].audit_start = clock]
                   /\ Observe(r, [probe EXCEPT !.failed = FailedFetches(io, ao, vo, ro),
                                               !.pulls = 4])
       \/ /\ runs' = [runs EXCEPT ![r].pc = "raised"]
          /\ Observe(r, [probe EXCEPT !.status = "raised"])
    /\ UNCHANGED <<orchestrator, audit_status, current_audit, audit_results, handlers, trial, clock>>

\* lines 406-428: one analysis per identity, then one per access record
Analyze(r) ==
    /\ runs[r].pc = "analyze"
    /\ runs' = [runs EXCEPT ![r].pc = "summarize"]
    /\ \E ni, na \in 0..MaxRecords :
          Observe(r, [probe EXCEPT !.analysed = ni + na])
    /\ UNCHANGED <<orchestrator, audit_status, current_audit, audit_results, handlers, trial, clock>>

\* lines 430-472: build the result (violations_response and
\* risk_summary_response are read with .get("data", {})), append it to the
\* history, return it; or raise out of the summary (lines 515, 524 read
\* every record with .get, which a record that is no JSON object lacks)
Summarize(r) ==
    /\ runs[r].pc = "summarize"
    /\ \/ /\ runs' = [runs EXCEPT ![r].result = CompletedResult(r),
                                  ![r].pc = "returned"]
          /\ audit_results' = Append(audit_results, CompletedResult(r))
          /\ Observe(r, [probe EXCEPT !.status = "completed"])
       \/ /\ runs' = [runs EXCEPT ![r].pc = "raised"]
          /\ UNCHANGED audit_results
          /\ Observe(r, [probe EXCEPT !.status = "raised"])
    /\ UNCHANGED <<orchestrator, audit_status, current_audit, handlers, trial, clock>>

RunStep(r) ==
    \/ HealthCheck(r)
    \/ CollectData(r)
    \/ Analyze(r)
    \/ Summarize(r)

\* the frame of a call that is over
Finished == [NoRun EXCEPT !.pc = "finished"]

\* --------------------------------------------- _run_audit_background
\* line 72: the status written after a call that returned
StatusAfterReturn(result) == "completed"

\* line 81: the status written by the except branch
StatusAfterRaise == "error"

\* line 71
BackgroundStoreResult(r) ==
    /\ runs[r].owner = Background
    /\ runs[r].pc = "returned"
    /\ current_audit' = runs[r].result
    /\ runs' = [runs EXCEPT ![r].pc = "bg_72"]
    /\ UNCHANGED <<orchestrator, audit_status, audit_results, handlers, probe, trial, clock>>

\* line 72
BackgroundSetCompleted(r) ==
    /\ runs[r].owner = Background
    /\ runs[r].pc = "bg_72"
    /\ audit_status' = StatusAfterReturn(runs[r].result)
    /\ runs' = [runs EXCEPT ![r] = Finished]
    /\ UNCHANGED <<orchestrator, current_audit, audit_results, handlers, probe, trial, clock>>

\* lines 74-80: the except branch stores an error record
BackgroundStoreError(r) ==
    /\ runs[r].owner = Background
    /\ runs[r].pc = "raised"
    /\ current_audit' = ErrorResult(r, "exception")
    /\ runs' = [runs EXCEPT ![r].result = ErrorResult(r, "exception"),
                            ![r].pc = "bg_81"]
    /\ UNCHANGED <<orchestrator, audit_status, audit_results, handlers, probe, trial, clock>>

\* an except branch that stores the error record and leaves audit_status alone
BackgroundSetErrorNoStatus(r) ==
    /\ runs[r].owner = Background
    /\ runs[r].pc = "bg_81"
    /\ runs' = [runs EXCEPT ![r] = Finished]
    /\ UNCHANGED <<orchestrator, audit_status, current_audit, audit_results,
                   handlers, probe, trial, clock>>

\* line 81
BackgroundSetError(r) ==
    /\ runs[r].owner = Background
    /\ runs[r].pc = "bg_81"
    /\ audit_status' = StatusAfterRaise
    /\ runs' = [runs EXCEPT ![r] = Finished]
    /\ UNCHANGED <<orchestrator, current_audit, audit_results, handlers, probe, trial, clock>>

\* line 70, the call itself
BackgroundRun(r) ==
    /\ runs[r].owner = Background
    /\ RunStep(r)

BackgroundStep(r) ==
    \/ BackgroundRun(r)
    \/ BackgroundStoreResult(r)
    \/ BackgroundSetCompleted(r)
    \/ BackgroundStoreError(r)
    \/ BackgroundSetError(r)

\* ------------------------------------------------------- quick_audit
\* lines 205-212: no look at audit_status; the call runs on the server thread
QuickAuditBegin(h) ==
    /\ handlers[h].pc = "idle"
    /\ IF ~orchestrator
         THEN /\ handlers' = [handlers EXCEPT ![h] = Responding("not_available")]
              /\ UNCHANGED runs
         ELSE /\ Committed < MaxRuns
              /\ runs' = [runs EXCEPT ![FreeRun] = NewRun(h)]
              /\ handlers' = [handlers EXCEPT ![h].pc = "quick_run"]
    /\ UNCHANGED <<orchestrator, audit_status, current_audit, audit_results, probe, trial, clock>>

\* line 212, the call itself
QuickAuditRun(h) ==
    /\ handlers[h].pc = "quick_run"
    /\ RunStep(RunOf(h))

\* lines 214-218: the result goes out as a success response
QuickAuditReturn(h) ==
    /\ handlers[h].pc = "quick_run"
    /\ runs[RunOf(h)].pc = "returned"
    /\ handlers' = [handlers EXCEPT ![h] = Responding("success")]
    /\ runs' = [runs EXCEPT ![RunOf(h)] = Finished]
    /\ UNCHANGED <<orchestrator, audit_status, current_audit, audit_results, probe, trial, clock>>

\* lines 220-225: the except branch answers 500
QuickAuditExcept(h) ==
    /\ handlers[h].pc = "quick_run"
    /\ runs[RunOf(h)].pc = "raised"
    /\ handlers' = [handlers EXCEPT ![h] = Responding("error_500")]
    /\ runs' = [runs EXCEPT ![RunOf(h)] = Finished]
    /\ UNCHANGED <<orchestrator, audit_status, current_audit, audit_results, probe, trial, clock>>

\* ------------------------------------------------------ specification
HandlerStep(h) ==
    \/ StartAuditCheck(h)
    \/ StartAuditSetRunning(h)
    \/ StartAuditClear(h)
    \/ StartAuditSpawn(h)
    \/ QuickAuditBegin(h)
    \/ QuickAuditRun(h)
    \/ QuickAuditReturn(h)
    \/ QuickAuditExcept(h)
    \/ Respond(h)

Next ==
    \/ \E h \in Handlers : HandlerStep(h)
    \/ \E r \in Runs : BackgroundStep(r)

Spec == Init /\ [][Next]_vars

\* the scheduler runs every runnable background thread
FairSpec == Spec /\ \A r \in Runs : WF_vars(BackgroundStep(r))

\* -------------------------------------------------- get_audit_status
\* line 86: the dict of the answer is built entry by entry; first
\* self.audit_status is read
StatusReadStatus(h) ==
    /\ handlers[h].pc = "idle"
    /\ handlers' = [handlers EXCEPT ![h] =
           [pc |-> "status_87", resp |-> "none", seen_status |-> audit_status]]
    /\ UNCHANGED <<orchestrator, audit_status, current_audit, audit_results,
                   runs, probe, trial, clock>>

\* line 87: then self.current_audit; lines 138-141 send both
StatusReadAudit(h) ==
    /\ handlers[h].pc = "status_87"
    /\ handlers' = [handlers EXCEPT ![h] =
           [pc |-> "respond", resp |-> "status",
            seen_status |-> handlers[h].seen_status,
            seen_audit |-> current_audit]]
    /\ UNCHANGED <<orchestrator, audit_status, current_audit, audit_results,
                   runs, probe, trial, clock>>

\* start requests, background threads and status reads
NextRead ==
    \/ \E h \in Handlers :
          \/ StartAuditCheck(h)
          \/ StartAuditSetRunning(h)
          \/ StartAuditClear(h)
          \/ StartAuditSpawn(h)
          \/ StatusReadStatus(h)
          \/ StatusReadAudit(h)
          \/ Respond(h)
    \/ \E r \in Runs : BackgroundStep(r)

ReadSpec == Init /\ [][NextRead]_vars

\* ------------------------------------------------------ the wall clock
\* time passes between any two steps of the service
Tick ==
    /\ clock < MaxClock
    /\ clock' = clock + 1
    /\ UNCHANGED <<orchestrator, audit_status, current_audit, audit_results,
                   handlers, runs, probe, trial>>

NextClock == Next \/ Tick

ClockSpec == Init /\ [][NextClock]_vars

\* ---------------------------------- the synchronous calls, one of them watched
InitAudit ==
    /\ orchestrator \in BOOLEAN
    /\ audit_status = "idle"
    /\ current_audit = None
    /\ audit_results = <<>>
    /\ handlers = [h \in Handlers |-> IdleHandler]
    /\ runs = [r \in Runs |-> NoRun]
    /\ \E r \in Runs : probe = [NoProbe EXCEPT !.run = r]
    /\ trial = NoTrial
    /\ clock = 0

NextAudit ==
    \E h \in Handlers :
        \/ QuickAuditBegin(h)
        \/ QuickAuditRun(h)
        \/ QuickAuditReturn(h)
        \/ QuickAuditExcept(h)
        \/ Respond(h)

AuditSpec == InitAudit /\ [][NextAudit]_vars

\* ------------------------------------------------- ComplianceAnalyzer
\* Risk scores are in tenths (0.5 is 5), confidences in hundredths. The
\* float sums the code forms differ from the decimal ones by at most one
\* unit in the last place, and none of its comparisons (> 0.7, <= 0.5,
\* min with 1.0) falls on the other side for that.
\* Moments and lastLogin are in half days, so that timedelta.days rounds.

\* dict.get(key, default)
Get(data, key, default) == IF key \in DOMAIN data THEN data[key] ELSE default

\* dict.get(key) taken as a condition
Truthy(data, key) == key \in DOMAIN data /\ data[key]

\* one conditional violations.append(text)
Tag(cond, text) == IF cond THEN <<text>> ELSE <<>>

Min(a, b) == IF a <= b THEN a ELSE b

\* the first argument whatever the second
MaxOfFirst(a, b) == a

\* line 258: max
Max(a, b) == IF a >= b THEN a ELSE b

\* the dict every analysis returns
Analysis(compliant, risk, violations, recommendation, confidence, type, now) ==
    [is_compliant |-> compliant, risk_score |-> risk, violations |-> violations,
     recommendation |-> recommendation, confidence |-> confidence,
     analysis_type |-> type, timestamp |-> now]

\* lines 354-365
DefaultAnalysis(now) ==
    Analysis(FALSE, 5, <<"Analysis failed">>, "MANUAL_REVIEW", 0, "default", now)

\* the test without the risk score
IsCompliantByViolations(violations, risk) == violations = <<>>

\* lines 299, 341: len(violations) == 0 and risk_score <= 0.5
IsCompliant(violations, risk) == violations = <<>> /\ risk <= 5

\* the two outcomes the wrong way round
RecommendationSwapped(compliant) == IF compliant THEN "INVESTIGATE" ELSE "APPROVE"

\* lines 264, 305, 347: "APPROVE" if is_compliant else "INVESTIGATE"
Recommendation(compliant) == IF compliant THEN "APPROVE" ELSE "INVESTIGATE"

\* no upper limit
ClampNone(risk) == risk

\* lines 303, 345: min(risk_score, 1.0)
Clamp(risk) == Min(risk, 10)

\* line 292: (datetime.now() - last_login_date).days
DaysSince(now, at) == (now - at) \div 2

\* the limit reached at 90 days already
InactiveFrom90(days) == days >= 90

\* line 293: days_since_login > 90
InactiveTooLong(days) == days > 90

\* lines 287-299: the last-login check; a lastLogin that does not parse is
\* passed over by the bare except
Inactive(identity, now) ==
    /\ "lastLogin" \in DOMAIN identity
    /\ identity.lastLogin.parses
    /\ InactiveTooLong(DaysSince(now, identity.lastLogin.at))

\* a record that is a JSON object
IsObject(data) == data.shape # "null"

\* lines 274-281: arithmetic and comparison on a riskScore that is no number
RuleBasedIdentityRaises(identity) == identity.shape # "object"

\* lines 271-310
RuleBasedIdentity(identity, now) ==
    LET baseline == Get(identity, "riskScore", 5)
        terminated == Get(identity, "status", "None") = "Terminated"
        afterStatus == IF terminated THEN baseline + 5 ELSE baseline
        high == afterStatus > 7
        restricted == Get(identity, "clearanceLevel", "None") = "Restricted"
        inactive == Inactive(identity, now)
        risk == IF inactive THEN afterStatus + 2 ELSE afterStatus
        violations == Tag(terminated, "Terminated user with active accounts")
                   \o Tag(high, "High risk score")
                   \o Tag(restricted, "Restricted clearance requires review")
                   \o Tag(inactive, "No login activity for 90+ days")
        compliant == IsCompliant(violations, risk)
    IN Analysis(compliant, Clamp(risk), violations, Recommendation(compliant),
                75, "rule_based", now)

\* str.upper() on the regime keys the data source uses
Upper(regime) ==
    CASE regime = "sox" -> "SOX"
      [] regime = "gdpr" -> "GDPR"
      [] OTHER -> regime

RECURSIVE ComplianceViolations(_)
\* lines 318-322, the tags: the regimes in the order of the dict
ComplianceViolations(compliance) ==
    IF compliance = <<>> THEN <<>>
    ELSE Tag(~Head(compliance).ok, Upper(Head(compliance).regime) \o " compliance violation")
         \o ComplianceViolations(Tail(compliance))

RECURSIVE ComplianceRisk(_, _)
\* lines 318-322, the score: 0.2 for every regime that is not met
ComplianceRisk(compliance, risk) ==
    IF compliance = <<>> THEN risk
    ELSE ComplianceRisk(Tail(compliance),
                        IF Head(compliance).ok THEN risk ELSE risk + 2)

\* lines 312-352; called on identities too (line 242), where every key it
\* reads is missing
RuleBasedAccess(access_record, now) ==
    LET compliance == Get(access_record, "compliance", <<>>)
        sod == Truthy(access_record, "violatesSOD")
        privileged == Truthy(access_record, "isPrivileged")
        expired == Get(access_record, "certificationStatus", "None") = "Expired"
        highLevel == Get(access_record, "riskLevel", "None") = "High"
        risk == ComplianceRisk(compliance, 3)
                + (IF sod THEN 3 ELSE 0) + (IF privileged THEN 2 ELSE 0)
                + (IF expired THEN 2 ELSE 0) + (IF highLevel THEN 2 ELSE 0)
        violations == ComplianceViolations(compliance)
                   \o Tag(sod, "Segregation of duties violation")
                   \o Tag(privileged, "Privileged access requires review")
                   \o Tag(expired, "Expired certification")
                   \o Tag(highLevel, "High risk access")
        compliant == IsCompliant(violations, risk)
    IN Analysis(compliant, Clamp(risk), violations, Recommendation(compliant),
                75, "rule_based", now)

\* ---- the model-assisted path
\* the words a decoded response is made of here
Vocabulary == {"Compliant", "non-compliant", "SOX", "violation",
               "segregation", "SoD", "privilege", "escalation"}

\* str.lower()
Lower(word) ==
    CASE word = "Compliant" -> "compliant"
      [] word = "SOX" -> "sox"
      [] word = "SoD" -> "sod"
      [] OTHER -> word

\* the keywords that are substrings of a lower-case word
Fragments(word) ==
    IF word = "non-compliant" THEN {"non-compliant", "compliant"} ELSE {word}

\* keyword in response.lower()
Contains(response, keyword) ==
    \E word \in response : keyword \in Fragments(Lower(word))

\* lines 244-269, for a riskScore that is a number or missing
ParseAiResponse(response, data, now) ==
    LET compliant == Contains(response, "compliant")
                     /\ ~Contains(response, "non-compliant")
        violations ==
            Tag(Contains(response, "sox")
                  /\ (Contains(response, "violation")
                        \/ Contains(response, "non-compliant")),
                "SOX compliance violation")
            \o Tag(Contains(response, "segregation") \/ Contains(response, "sod"),
                   "Segregation of duties violation")
            \o Tag(Contains(response, "privilege") /\ Contains(response, "escalation"),
                   "Privilege escalation risk")
        baseline == Get(data, "riskScore", 5)
        risk == IF ~compliant THEN Max(baseline, 7) ELSE baseline
    IN Analysis(compliant, risk, violations, Recommendation(compliant),
                85, "ai_model", now)

\* the sentinel in place of the rules
AiAnalysisFailedDefault(data, now) == DefaultAnalysis(now)

\* lines 240-242: whatever the kind of record, the access rules
AiAnalysisFailed(data, now) == RuleBasedAccess(data, now)

\* lines 221-242
AiAnalysis(data, model, now) ==
    IF model.raises
      THEN AiAnalysisFailed(data, now)
      ELSE ParseAiResponse(model.response, data, now)

\* lines 184-199: a record that is no JSON object has no .get
IdentityPromptRaises(identity) == identity.shape = "null"

\* lines 201-219: the same, and compliance must be an object too
AccessPromptRaises(access_record) == access_record.shape # "object"

\* lines 151-167
AnalyzeIdentityRisk(identity, model, now) ==
    IF IdentityPromptRaises(identity) THEN DefaultAnalysis(now)
    ELSE IF model.loaded THEN AiAnalysis(identity, model, now)
    ELSE IF RuleBasedIdentityRaises(identity) THEN DefaultAnalysis(now)
    ELSE RuleBasedIdentity(identity, now)

\* lines 169-182
AnalyzeAccessCompliance(access_record, model, now) ==
    IF AccessPromptRaises(access_record) THEN DefaultAnalysis(now)
    ELSE IF model.loaded THEN AiAnalysis(access_record, model, now)
    ELSE RuleBasedAccess(access_record, now)

\* lines 412, 424: the analysis the audit asks for a record of either kind
AnalyzeRecord(kind, record, model, now) ==
    IF kind = "identity"
      THEN AnalyzeIdentityRisk(record, model, now)
      ELSE AnalyzeAccessCompliance(record, model, now)

\* ---- the audit's use of the analyzer
\* lines 406-416
IdentityResults(identities, model, now) ==
    [i \in DOMAIN identities |->
        [identity |-> identities[i],
         analysis |-> AnalyzeIdentityRisk(identities[i], model, now)]]

\* lines 418-428
AccessResults(access_records, model, now) ==
    [i \in DOMAIN access_records |->
        [access_record |-> access_records[i],
         analysis |-> AnalyzeAccessCompliance(access_records[i], model, now)]]

\* len([r for r in results if r["analysis"]["is_compliant"]])
CompliantCount(results) ==
    Cardinality({i \in DOMAIN results : results[i].analysis.is_compliant})

\* 0.7 itself counted too
HighRiskCountFrom07(results) ==
    Cardinality({i \in DOMAIN results : results[i].analysis.risk_score >= 7})

\* line 439, per list: r["analysis"]["risk_score"] > 0.7
HighRiskCount(results) ==
    Cardinality({i \in DOMAIN results : results[i].analysis.risk_score > 7})

\* the rate cut off after the first decimal instead of rounded
FormatRateTruncated(compliant, total) ==
    IF total > 0
      THEN [tenths |-> (1000 * compliant) \div total, decimals |-> 1]
      ELSE [tenths |-> 0, decimals |-> 0]

\* lines 450, 453, 455: f"{(compliant/total*100):.1f}%" if total > 0 else
\* "0%". A rate is held as its number of tenths of a percent and the
\* number of decimals printed: "33.3%" is 333 with 1, "0%" is 0 with 0.
\* The :.1f rounding is to the nearest tenth (no tie arises below 16 items).
FormatRate(compliant, total) ==
    IF total > 0
      THEN [tenths |-> (2000 * compliant + total) \div (2 * total), decimals |-> 1]
      ELSE [tenths |-> 0, decimals |-> 0]

\* lines 433-439, 447-456: the counts and rates of the summary
Summary(identity_results, access_results) ==
    [total_identities |-> Len(identity_results),
     compliant_identities |-> CompliantCount(identity_results),
     identity_compliance_rate |->
        FormatRate(CompliantCount(identity_results), Len(identity_results)),
     total_access_records |-> Len(access_results),
     compliant_access_records |-> CompliantCount(access_results),
     access_compliance_rate |->
        FormatRate(CompliantCount(access_results), Len(access_results)),
     high_risk_items |-> HighRiskCount(identity_results)
                           + HighRiskCount(access_results),
     overall_compliance_rate |->
        FormatRate(CompliantCount(identity_results) + CompliantCount(access_results),
                   Len(identity_results) + Len(access_results))]

\* the whole list
FirstFiveAll(results) == results

\* lines 462-463: results[:5]
FirstFive(results) == SubSeq(results, 1, Min(5, Len(results)))

\* an entry whatever the count
RecommendAlways(count, text) == <<[text |-> text, count |-> count]>>

\* lines 512-513 and the like: if the list of matches is not empty, one
\* entry with its length; the text is held with N in place of the number
Recommend(count, text) ==
    IF count > 0 THEN <<[text |-> text, count |-> count]>> ELSE <<>>

\* line 520: "segregation" in " ".join(violations).lower(), over the tags
\* the analyzer writes
MentionsSegregation(violations) ==
    \E i \in DOMAIN violations :
        violations[i] = "Segregation of duties violation"

\* lines 506-535
GenerateRecommendations(identity_results, access_results) ==
    LET matching(results, P(_)) ==
            Cardinality({i \in DOMAIN results : P(results[i])})
        HighRisk(r) == r.analysis.risk_score > 7
        Terminated(r) == Get(r.identity, "status", "None") = "Terminated"
        Sod(r) == MentionsSegregation(r.analysis.violations)
        Expired(r) == Get(r.access_record, "certificationStatus", "None") = "Expired"
        Privileged(r) == Truthy(r.access_record, "isPrivileged")
        recommendations ==
            Recommend(matching(identity_results, HighRisk),
                      "Review N high-risk identities")
            \o Recommend(matching(identity_results, Terminated),
                         "Disable access for N terminated users")
            \o Recommend(matching(access_results, Sod),
                         "Address N segregation of duties violations")
            \o Recommend(matching(access_results, Expired),
                         "Renew N expired certifications")
            \o Recommend(matching(access_results, Privileged),
                         "Review N privileged access grants")
    IN IF recommendations = <<>>
         THEN <<[text |-> "No major compliance issues detected", count |-> 0]>>
         ELSE recommendations

\* lines 515, 524, 528: r["identity"].get and r["access_record"].get, on
\* every record of the audit
RecommendationsRaise(identity_results, access_results) ==
    \/ \E i \in DOMAIN identity_results : ~IsObject(identity_results[i].identity)
    \/ \E i \in DOMAIN access_results : ~IsObject(access_results[i].access_record)

\* lines 430-472: what the call comes to once both loops are through
AuditOutcome(identity_results, access_results) ==
    IF RecommendationsRaise(identity_results, access_results)
      THEN [status |-> "raised"]
      ELSE [status |-> "completed",
            summary |-> Summary(identity_results, access_results),
            detailed_results |->
                [identities |-> FirstFive(identity_results),
                 access_records |-> FirstFive(access_results)],
            recommendations |->
                GenerateRecommendations(identity_results, access_results)]

\* ---- inputs of the analyzer
\* riskScore values met: below 0, low, mid, above 0.7, above 1
RiskScores == {-2, 2, 3, 6, 8, 13}

\* lastLogin: one that does not parse, one in the past, one in the future
LastLogins == {[parses |-> FALSE, at |-> 0], [parses |-> TRUE, at |-> 0],
               [parses |-> TRUE, at |-> 400]}

\* moments of analysis: 80, 90 and 91 days after the login at 0
Nows == {161, 181, 182}

Statuses == {"Active", "Terminated"}

ClearanceLevels == {"Internal", "Restricted"}

\* identities as the data source serves them; riskScore and lastLogin may
\* be missing
ObjectIdentities ==
    LET core == [shape : {"object"}, status : Statuses,
                 clearanceLevel : ClearanceLevels]
    IN core
       \cup {[shape |-> c.shape, status |-> c.status,
              clearanceLevel |-> c.clearanceLevel, riskScore |-> v] :
                c \in core, v \in RiskScores}
       \cup {[shape |-> c.shape, status |-> c.status,
              clearanceLevel |-> c.clearanceLevel, lastLogin |-> l] :
                c \in core, l \in LastLogins}
       \cup {[shape |-> c.shape, status |-> c.status,
              clearanceLevel |-> c.clearanceLevel, riskScore |-> v,
              lastLogin |-> l] :
                c \in core, v \in RiskScores, l \in LastLogins}

\* a JSON object whose riskScore is no number
BadIdentities ==
    [shape : {"bad_field"}, status : Statuses, clearanceLevel : {"Internal"}]

\* an item that is no JSON object
NullRecord == [shape |-> "null"]

Regimes == {"sox", "gdpr"}

\* the compliance dict, in its order: no, one or two regimes
ComplianceDicts ==
    LET flags == [regime : Regimes, ok : BOOLEAN]
    IN {<<>>} \cup {<<f>> : f \in flags}
       \cup {<<p[1], p[2]>> :
                p \in {q \in flags \X flags : q[1].regime # q[2].regime}}

ObjectAccessRecords ==
    [shape : {"object"}, compliance : ComplianceDicts, violatesSOD : BOOLEAN,
     isPrivileged : BOOLEAN, certificationStatus : {"Certified", "Expired"},
     riskLevel : {"Low", "High"}]

\* a JSON object whose compliance is no object
BadAccessRecords ==
    [shape : {"bad_field"}, violatesSOD : {FALSE}, isPrivileged : BOOLEAN,
     certificationStatus : {"Certified"}, riskLevel : {"Low"}]

\* lines 122-123, 146-149: no model and no tokenizer
NoModel == [loaded |-> FALSE, raises |-> FALSE, response |-> {}]

\* a model whose every call raises
FailingModel == [loaded |-> TRUE, raises |-> TRUE, response |-> {}]

\* a model that answers
Replying(response) == [loaded |-> TRUE, raises |-> FALSE, response |-> response]

NoAnalysis == [analysis_type |-> "none"]

\* a record, the analyzer it meets and the moment
Drawn(kind, record, model, now) ==
    [phase |-> "drawn", kind |-> kind, record |-> record, model |-> model,
     now |-> now, first |-> NoAnalysis, second |-> NoAnalysis]

\* records whose riskScore the parse of a response can take
ReplyRecords ==
    {i \in ObjectIdentities : i.status = "Active" /\ i.clearanceLevel = "Internal"
                              /\ "lastLogin" \notin DOMAIN i}

\* single analyses: every record on the rule paths, the riskScore against
\* every response on the model path
DrawnTrials ==
    {Drawn("identity", i, m, n) :
        i \in ObjectIdentities \cup BadIdentities \cup {NullRecord},
        m \in {NoModel, FailingModel}, n \in Nows}
    \cup {Drawn("access", a, m, n) :
        a \in ObjectAccessRecords \cup BadAccessRecords \cup {NullRecord},
        m \in {NoModel, FailingModel}, n \in Nows}
    \cup {Drawn("identity", i, Replying(w), n) :
        i \in ReplyRecords, w \in SUBSET Vocabulary, n \in Nows}

\* the lists of up to n items of S
ListsUpTo(S, n) == UNION {[1..k -> S] : k \in 0..n}

\* items an audit pulls: fine, high risk, ill-typed field, no object
AuditIdentities ==
    {[shape |-> "object", status |-> "Active", clearanceLevel |-> "Internal",
      riskScore |-> 2],
     [shape |-> "object", status |-> "Terminated", clearanceLevel |-> "Internal",
      riskScore |-> 6],
     [shape |-> "bad_field", status |-> "Active", clearanceLevel |-> "Internal"],
     NullRecord}

AuditAccessRecords ==
    {[shape |-> "object", compliance |-> <<[regime |-> "sox", ok |-> TRUE]>>,
      violatesSOD |-> FALSE, isPrivileged |-> FALSE,
      certificationStatus |-> "Certified", riskLevel |-> "Low"],
     [shape |-> "object", compliance |-> <<[regime |-> "sox", ok |-> FALSE]>>,
      violatesSOD |-> TRUE, isPrivileged |-> FALSE,
      certificationStatus |-> "Certified", riskLevel |-> "Low"],
     [shape |-> "object",
      compliance |-> <<[regime |-> "sox", ok |-> FALSE],
                       [regime |-> "gdpr", ok |-> FALSE]>>,
      violatesSOD |-> FALSE, isPrivileged |-> FALSE,
      certificationStatus |-> "Certified", riskLevel |-> "Low"],
     [shape |-> "object", compliance |-> <<>>,
      violatesSOD |-> TRUE, isPrivileged |-> TRUE,
      certificationStatus |-> "Expired", riskLevel |-> "High"],
     [shape |-> "bad_field", violatesSOD |-> FALSE, isPrivileged |-> FALSE,
      certificationStatus |-> "Certified", riskLevel |-> "Low"],
     NullRecord}

\* the items of a long pull: one that passes and one that does not
LongIdentities ==
    {i \in AuditIdentities : i.shape = "object"}

LongAccessRecords ==
    {a \in AuditAccessRecords :
        a.shape = "object" /\ (a.compliance = <<>> \/ a.compliance[1].ok)}

\* what the two pulls of an audit brought, the analyzer and the moment
Pulled(identities, access_records, model, now) ==
    [phase |-> "pulled", identities |-> identities,
     access_records |-> access_records, model |-> model, now |-> now,
     identity_results |-> <<>>, access_results |-> <<>>,
     outcome |-> [status |-> "none"]]

PulledTrials ==
    {Pulled(is, as, m, n) :
        is \in ListsUpTo(AuditIdentities, MaxRecords),
        as \in ListsUpTo(AuditAccessRecords, MaxRecords),
        m \in {NoModel, FailingModel}, n \in {181}}
    \cup {Pulled(is, <<>>, NoModel, 181) :
        is \in ListsUpTo(LongIdentities, MaxItems)}
    \cup {Pulled(<<>>, as, NoModel, 181) :
        as \in ListsUpTo(LongAccessRecords, MaxItems)}

\* ---- get_identity_details and the data source behind it
\* sailpoint_api.py lines 45-69, 187-196: the identities route filters on
\* status, department and riskScore; any other query parameter is ignored
SourceIdentities(store, params) ==
    IF "status" \in DOMAIN params
      THEN SelectSeq(store, LAMBDA i : i.status = params.status)
      ELSE store

\* sailpoint_api.py lines 79-110, 232: the access-records route filters on
\* identityId
SourceAccessRecords(store, params) ==
    IF "identityId" \in DOMAIN params
      THEN SelectSeq(store, LAMBDA r : r.identityId = params.identityId)
      ELSE store

\* lines 58-88: the connector's answer, or its failure result when the
\* request fails
ConnectorResponse(reached, items) ==
    IF reached THEN [success |-> TRUE, items |-> items]
               ELSE [success |-> FALSE, items |-> <<>>]

\* lines 474-504
GetIdentityDetails(identity_id, stored, reached, model, now) ==
    LET identity_response ==
            ConnectorResponse(reached.identities,
                SourceIdentities(stored.identities, [id |-> identity_id]))
        access_response ==
            ConnectorResponse(reached.access_records,
                SourceAccessRecords(stored.access_records,
                                    [identityId |-> identity_id]))
    IN IF ~identity_response.success \/ identity_response.items = <<>>
         THEN [error |-> "Identity not found"]
         ELSE [identity |-> identity_response.items[1],
               identity_analysis |->
                   AnalyzeIdentityRisk(identity_response.items[1], model, now),
               access_records |->
                   IF access_response.success
                     THEN AccessResults(access_response.items, model, now)
                     ELSE <<>>]

IdentityIds == {"id1", "id2"}

\* the identity the source holds under an id
StoredIdentity(id) ==
    [shape |-> "object", id |-> id, status |-> "Active",
     clearanceLevel |-> "Internal", riskScore |-> 2]

\* an access record the source holds for an identity
StoredAccessRecord(id) ==
    [shape |-> "object", identityId |-> id, compliance |-> <<>>,
     violatesSOD |-> FALSE, isPrivileged |-> TRUE,
     certificationStatus |-> "Certified", riskLevel |-> "Low"]

\* what the source holds: no, one or both identities, and access records
Stores ==
    [identities : {<<>>, <<StoredIdentity("id1")>>,
                   <<StoredIdentity("id1"), StoredIdentity("id2")>>,
                   <<StoredIdentity("id2"), StoredIdentity("id1")>>},
     access_records : ListsUpTo({StoredAccessRecord(id) : id \in IdentityIds},
                                MaxRecords)]

\* a lookup: the id asked for, the store, whether the source is reached
Asked(identity_id, stored, reached, model, now) ==
    [phase |-> "asked", identity_id |-> identity_id, stored |-> stored,
     reached |-> reached, model |-> model, now |-> now,
     details |-> [error |-> "none"]]

AskedTrials ==
    {Asked(id, st, re, NoModel, 181) :
        id \in IdentityIds \cup {"id9"}, st \in Stores,
        re \in [identities : BOOLEAN, access_records : BOOLEAN]}

InitAnalyzer ==
    /\ orchestrator = TRUE
    /\ audit_status = "idle"
    /\ current_audit = None
    /\ audit_results = <<>>
    /\ handlers = [h \in Handlers |-> IdleHandler]
    /\ runs = [r \in Runs |-> NoRun]
    /\ probe = NoProbe
    /\ trial \in DrawnTrials \cup PulledTrials \cup AskedTrials
    /\ clock = 0

Untouched ==
    UNCHANGED <<orchestrator, audit_status, current_audit, audit_results,
                handlers, runs, probe, clock>>

\* lines 412, 424 for one record: analyze_identity_risk or
\* analyze_access_compliance
TrialAnalyze ==
    /\ trial.phase = "drawn"
    /\ trial' = [trial EXCEPT !.phase = "analysed",
           !.first = AnalyzeRecord(trial.kind, trial.record, trial.model, trial.now)]
    /\ Untouched

\* the wall clock moves on
TrialTick ==
    /\ trial.phase = "analysed"
    /\ \E n \in Nows :
          /\ n > trial.now
          /\ trial' = [trial EXCEPT !.phase = "later", !.now = n]
    /\ Untouched

\* the same record analysed once more
TrialAnalyzeAgain ==
    /\ trial.phase = "later"
    /\ trial' = [trial EXCEPT !.phase = "again",
           !.second = AnalyzeRecord(trial.kind, trial.record, trial.model, trial.now)]
    /\ Untouched

\* lines 406-428: both loops of an audit
TrialLoops ==
    /\ trial.phase = "pulled"
    /\ trial' = [trial EXCEPT !.phase = "looped",
           !.identity_results = IdentityResults(trial.identities, trial.model, trial.now),
           !.access_results = AccessResults(trial.access_records, trial.model, trial.now)]
    /\ Untouched

\* lines 430-472: the summary, or the exception out of it
TrialSummarize ==
    /\ trial.phase = "looped"
    /\ trial' = [trial EXCEPT !.phase = "audited",
           !.outcome = AuditOutcome(trial.identity_results, trial.access_results)]
    /\ Untouched

\* lines 474-504, for the id asked
TrialLookup ==
    /\ trial.phase = "asked"
    /\ trial' = [trial EXCEPT !.phase = "looked_up",
           !.details = GetIdentityDetails(trial.identity_id, trial.stored,
                                          trial.reached, trial.model, trial.now)]
    /\ Untouched

NextAnalyzer ==
    \/ TrialLookup
    \/ TrialAnalyze
    \/ TrialTick
    \/ TrialAnalyzeAgain
    \/ TrialLoops
    \/ TrialSummarize

AnalyzerSpec == InitAnalyzer /\ [][NextAnalyzer]_vars

\* ------------------------------------------------------------ claims
BackgroundActive(r) == runs[r].owner = Background /\ Active(r)

QuickActive(r) == runs[r].owner \in Handlers /\ Active(r)

Accepting == {"start_53", "start_54", "start_57"}

\* C1: under any interleaving of start_audit requests at most one background
\* audit run is in progress at any time.
C1_AtMostOneBackgroundRun ==
    Cardinality({r \in Runs : BackgroundActive(r)}) <= 1

\* C2: the limit of one running audit covers the synchronous variant: no
\* quick audit executes run_full_compliance_audit while a background run is
\* in progress, and no background run is in progress while a quick audit
\* executes.
C2_SyncAuditExcluded ==
    ~ \E r, q \in Runs : BackgroundActive(r) /\ QuickActive(q)

\* C3: a start_audit call made while audit_status is running is answered
\* with the "already in progress" error and changes nothing: audit_status,
\* current_audit, the history and the set of threads stay as they are.
C3_RejectedStartMutatesNothing ==
    [][\A h \in Handlers :
          (StartAuditCheck(h) /\ audit_status = "running")
          => /\ handlers'[h] = Responding("already_in_progress")
             /\ UNCHANGED <<audit_status, current_audit, audit_results, runs>>]_vars

C3_Witness ==
    \E h \in Handlers :
        /\ handlers[h] = Responding("already_in_progress")
        /\ audit_status = "running"
        /\ \E r \in Runs : BackgroundActive(r)

\* C4: a start_audit call made while an earlier accepted run has not finished
\* is rejected, and when that run finishes current_audit is exactly the
\* result it produced.
C4_FirstResultIntact ==
    [][/\ \A h \in Handlers :
            (StartAuditCheck(h) /\ \E r \in Runs : BackgroundActive(r))
            => handlers'[h] = Responding("already_in_progress")
       /\ \A r \in Runs :
            (BackgroundSetCompleted(r) \/ BackgroundSetError(r))
            => current_audit' = runs[r].result]_vars

\* the transitions of the run-state machine
StatusTransitions ==
    {<<"idle", "running">>, <<"running", "completed">>, <<"running", "error">>,
     <<"completed", "running">>, <<"error", "running">>}

\* C5: audit_status changes only along idle->running, running->completed,
\* running->error, completed->running and error->running.
C5_StatusTransitions ==
    [][audit_status' # audit_status
         => <<audit_status, audit_status'>> \in StatusTransitions]_vars

\* C6: when a background run ends with an error result (health check not
\* healthy, or a failed identities / access-records pull), the registry
\* status becomes error, not completed, and current_audit is that error
\* result.
C6_FailedRunSetsError ==
    [][\A r \in Runs :
          (BackgroundSetCompleted(r) /\ runs[r].result.status = "error")
          => /\ audit_status' = "error"
             /\ current_audit'.status = "error"]_vars

\* C7: run_full_compliance_audit returns a result of status error without
\* analysing any record when the health check does not report healthy (and
\* then issues no fetch) or when the identities or the access-records pull
\* reports failure.
C7_ErrorStopsBeforeAnalysis ==
    /\ probe.health \notin {"unknown", "healthy"}
       => /\ probe.status = "error"
          /\ probe.pulls = 0
          /\ probe.analysed = 0
          /\ runs[probe.run].pc \in {"returned", "finished"}
    /\ probe.failed \cap {"identities", "access_records"} # {}
       => /\ probe.status = "error"
          /\ probe.analysed = 0
          /\ runs[probe.run].pc \in {"returned", "finished"}

C7_Witness ==
    /\ probe.health = "healthy"
    /\ probe.failed = {"access_records"}
    /\ probe.pulls = 4
    /\ runs[probe.run].pc = "returned"
    /\ runs[probe.run].result.status = "error"

\* C8: if any of the four fetches of a run hands back a failure value, the
\* run does not end with a completed result.
C8_AnyFailedFetchIsFatal ==
    probe.failed # {} => probe.status # "completed"

\* C9: every background run that was started finishes, and the step that
\* finishes it leaves audit_status completed or error, whether the call
\* returned or raised.
C9_RunLeavesRunning ==
    /\ \A r \in Runs : BackgroundActive(r) ~> (runs[r].pc = "finished")
    /\ [][\A r \in Runs :
            (BackgroundActive(r) /\ runs'[r].pc = "finished")
            => audit_status' \in {"completed", "error"}]_vars

C9_Witness ==
    /\ audit_status = "error"
    /\ \E r \in Runs : runs[r].pc = "finished"
    /\ \A r \in Runs : ~BackgroundActive(r)
    /\ \A h \in Handlers : handlers[h].pc \notin Accepting

\* C10: a start_audit call that finds audit_status idle, completed or error
\* (orchestrator initialised) is accepted: it sets audit_status to running
\* and answers "started".
C10_StartAcceptedWhenNotRunning ==
    [][\A h \in Handlers :
          /\ (StartAuditCheck(h) /\ orchestrator
                /\ audit_status \in {"idle", "completed", "error"})
             => handlers'[h].pc = "start_53"
          /\ (handlers[h].pc = "start_53" /\ handlers'[h].pc # "start_53")
             => audit_status' = "running"
          /\ (handlers[h].pc \in Accepting /\ handlers'[h].pc \notin Accepting)
             => handlers'[h] = Responding("started")]_vars

C10_Witness ==
    /\ audit_status = "error"
    /\ \E h \in Handlers : handlers[h].pc = "start_53"

\* ------------------------------------------------ claims on the analyzer
\* the analyses the analyzer has returned for the record on trial
Returned ==
    CASE trial.phase \in {"analysed", "later"} -> {trial.first}
      [] trial.phase = "again" -> {trial.first, trial.second}
      [] OTHER -> {}

\* violations empty and the returned risk_score at most 0.5
CleanAndLow(a) == a.violations = <<>> /\ a.risk_score <= 5

\* C11: every analysis the rule-based path returns, for an identity or an
\* access record, has is_compliant true exactly when its violations are
\* empty and its returned risk_score is at most 0.5.
C11_RuleBasedCompliance ==
    \A a \in Returned :
        a.analysis_type = "rule_based" => (a.is_compliant <=> CleanAndLow(a))

\* a rule-based analysis without violations that the risk score alone
\* makes non-compliant
C11_Witness ==
    /\ trial.phase = "analysed"
    /\ trial.first.analysis_type = "rule_based"
    /\ trial.first.violations = <<>>
    /\ trial.first.risk_score > 5
    /\ ~trial.first.is_compliant

\* C12: every analysis the model-assisted path returns has is_compliant
\* true exactly when its violations are empty and its risk_score is at
\* most 0.5; it is never compliant with violations or a higher score.
C12_ModelAssistedCompliance ==
    \A a \in Returned :
        a.analysis_type = "ai_model" => (a.is_compliant <=> CleanAndLow(a))

\* C13: the risk_score of every returned analysis lies in [0.0, 1.0],
\* whatever the riskScore of the record, on every path.
C13_RiskScoreInUnitInterval ==
    \A a \in Returned : a.risk_score >= 0 /\ a.risk_score <= 10

\* the same violations, risk_score and is_compliant
SameScoring(a, b) ==
    /\ a.violations = b.violations
    /\ a.risk_score = b.risk_score
    /\ a.is_compliant = b.is_compliant

\* both analyses of the record on trial are through and came by the rules
TwiceByRules ==
    /\ trial.phase = "again"
    /\ trial.first.analysis_type = "rule_based"
    /\ trial.second.analysis_type = "rule_based"

\* the lastLogin of the record lies more than 90 days before the moment
LoginOver90DaysBefore(moment) ==
    /\ "lastLogin" \in DOMAIN trial.record
    /\ trial.record.lastLogin.parses
    /\ (moment - trial.record.lastLogin.at) \div 2 > 90

WellFormedAnalysed ==
    /\ trial.phase \in {"analysed", "later", "again"}
    /\ trial.record.shape = "object"

\* C15: with no model loaded, or a model that raises on every call, every
\* analysis of a well-formed record comes back with analysis_type
\* rule_based, never as the default sentinel.
C15_NoModelMeansRuleBased ==
    (WellFormedAnalysed /\ (~trial.model.loaded \/ trial.model.raises))
    => \A a \in Returned : a.analysis_type = "rule_based"

\* a well-formed record analysed by a model that raised, answered by rules
C15_Witness ==
    /\ WellFormedAnalysed
    /\ trial.model.loaded /\ trial.model.raises
    /\ trial.first.analysis_type = "rule_based"

\* what the rules of the record's own kind give for it at a moment
RulesOfItsKind(moment) ==
    IF trial.kind = "identity"
      THEN RuleBasedIdentity(trial.record, moment)
      ELSE RuleBasedAccess(trial.record, moment)

\* C16: when the model raises, the analysis returned equals the rule-based
\* analysis of the same record of the same kind: identity rules for an
\* identity, access rules for an access record.
C16_FailedModelFallsBackInKind ==
    (WellFormedAnalysed /\ trial.model.loaded /\ trial.model.raises)
    => trial.first = RulesOfItsKind(trial.first.timestamp)

\* the analysis carries the violation tag
Tagged(a, text) == \E i \in DOMAIN a.violations : a.violations[i] = text

\* 1 for a rule that fired, 0 otherwise
Fired(cond) == IF cond THEN 1 ELSE 0

\* a well-formed record of the kind, scored by the rules of its kind
ScoredByOwnRules(kind) ==
    /\ WellFormedAnalysed
    /\ trial.kind = kind
    /\ ~trial.model.loaded

\* C17: the identity rules start from the record's riskScore (0.5 if it has
\* none); Terminated adds 0.5 and its tag; the 'High risk score' tag is
\* there exactly when the riskScore before any increment exceeds 0.7;
\* Restricted clearance adds its tag only; a last login more than 90 days
\* back adds 0.2 and its tag. An Active, Internal identity with riskScore
\* 0.2 and a recent login comes back with no violation and 0.2.
C17_IdentityRuleTable ==
    ScoredByOwnRules("identity") =>
        LET a == trial.first
            baseline == IF "riskScore" \in DOMAIN trial.record
                          THEN trial.record.riskScore ELSE 5
            terminated == trial.record.status = "Terminated"
            inactive == LoginOver90DaysBefore(a.timestamp)
            sum == baseline + 5 * Fired(terminated) + 2 * Fired(inactive)
        IN /\ a.risk_score = IF sum > 10 THEN 10 ELSE sum
           /\ Tagged(a, "Terminated user with active accounts") <=> terminated
           /\ Tagged(a, "High risk score") <=> baseline > 7
           /\ Tagged(a, "Restricted clearance requires review")
                <=> trial.record.clearanceLevel = "Restricted"
           /\ Tagged(a, "No login activity for 90+ days") <=> inactive

\* the access record of the example: SOX not met, GDPR met, nothing else
Example1 ==
    [shape |-> "object",
     compliance |-> <<[regime |-> "sox", ok |-> FALSE],
                      [regime |-> "gdpr", ok |-> TRUE]>>,
     violatesSOD |-> FALSE, isPrivileged |-> FALSE,
     certificationStatus |-> "Certified", riskLevel |-> "Low"]

\* C18: the access rules start at 0.3; every regime flag that is false adds
\* 0.2 and '<REGIME> compliance violation'; violatesSOD adds 0.3,
\* isPrivileged 0.2, an Expired certification 0.2 and a High risk level
\* 0.2, each with its tag; the sum is capped at 1.0. For {sox: false,
\* gdpr: true} alone the result is 0.5, ['SOX compliance violation'],
\* not compliant.
C18_AccessRuleTable ==
    ScoredByOwnRules("access") =>
        LET a == trial.first
            rec == trial.record
            unmet == {i \in DOMAIN rec.compliance : ~rec.compliance[i].ok}
            expired == rec.certificationStatus = "Expired"
            highLevel == rec.riskLevel = "High"
            sum == 3 + 2 * Cardinality(unmet) + 3 * Fired(rec.violatesSOD)
                   + 2 * Fired(rec.isPrivileged) + 2 * Fired(expired)
                   + 2 * Fired(highLevel)
        IN /\ a.risk_score = IF sum > 10 THEN 10 ELSE sum
           /\ Tagged(a, "SOX compliance violation")
                <=> \E i \in unmet : rec.compliance[i].regime = "sox"
           /\ Tagged(a, "GDPR compliance violation")
                <=> \E i \in unmet : rec.compliance[i].regime = "gdpr"
           /\ Tagged(a, "Segregation of duties violation") <=> rec.violatesSOD
           /\ Tagged(a, "Privileged access requires review") <=> rec.isPrivileged
           /\ Tagged(a, "Expired certification") <=> expired
           /\ Tagged(a, "High risk access") <=> highLevel
           /\ Len(a.violations) = Cardinality(unmet) + Fired(rec.violatesSOD)
                + Fired(rec.isPrivileged) + Fired(expired) + Fired(highLevel)
           /\ rec = Example1 =>
                /\ a.risk_score = 5
                /\ a.violations = <<"SOX compliance violation">>
                /\ ~a.is_compliant

\* the record of the example, scored by the access rules
C18_Witness ==
    /\ ScoredByOwnRules("access")
    /\ trial.record = Example1
    /\ trial.first.risk_score = 5

\* C19: on every path the recommendation is APPROVE exactly when the
\* analysis is compliant and not the default one, INVESTIGATE when a model
\* or rule analysis is not compliant, and MANUAL_REVIEW exactly when the
\* analysis is the default one.
C19_RecommendationFollowsPath ==
    \A a \in Returned :
        /\ a.recommendation = "APPROVE"
             <=> (a.is_compliant /\ a.analysis_type # "default")
        /\ (a.analysis_type \in {"ai_model", "rule_based"} /\ ~a.is_compliant)
             => a.recommendation = "INVESTIGATE"
        /\ a.recommendation = "MANUAL_REVIEW" <=> a.analysis_type = "default"

\* a model analysis that is not compliant and says INVESTIGATE
C19_Witness ==
    /\ trial.phase = "analysed"
    /\ trial.first.analysis_type = "ai_model"
    /\ ~trial.first.is_compliant
    /\ trial.first.recommendation = "INVESTIGATE"

\* the identities of the audit on trial whose scoring raised
RaisedIdentities ==
    {i \in DOMAIN trial.identities :
        \/ IdentityPromptRaises(trial.identities[i])
        \/ ~trial.model.loaded /\ RuleBasedIdentityRaises(trial.identities[i])}

\* the access records of the audit on trial whose scoring raised
RaisedAccessRecords ==
    {i \in DOMAIN trial.access_records :
        AccessPromptRaises(trial.access_records[i])}

\* C20: an audit in which the scoring of a record raised still ends
\* completed: that record carries the default sentinel, every record of
\* both lists has its analysis, and the totals count the record, as
\* non-compliant.
C20_ScoringFailureIsSurvived ==
    (trial.phase = "audited"
       /\ (RaisedIdentities # {} \/ RaisedAccessRecords # {}))
    => /\ \A i \in RaisedIdentities :
            trial.identity_results[i].analysis = DefaultAnalysis(trial.now)
       /\ \A i \in RaisedAccessRecords :
            trial.access_results[i].analysis = DefaultAnalysis(trial.now)
       /\ Len(trial.identity_results) = Len(trial.identities)
       /\ Len(trial.access_results) = Len(trial.access_records)
       /\ trial.outcome.status = "completed"
       /\ trial.outcome.summary.total_identities = Len(trial.identities)
       /\ trial.outcome.summary.total_access_records = Len(trial.access_records)
       /\ trial.outcome.summary.compliant_identities
            <= Len(trial.identities) - Cardinality(RaisedIdentities)
       /\ trial.outcome.summary.compliant_access_records
            <= Len(trial.access_records) - Cardinality(RaisedAccessRecords)

\* ----------------------------------------- claims on the audit's result
\* the audit on trial ended completed
Completed == trial.phase = "audited" /\ trial.outcome.status = "completed"

\* the results of a list that are compliant
CompliantOnes(results) ==
    {i \in DOMAIN results : results[i].analysis.is_compliant}

\* the rate printed for compliant out of total: "0%" for an empty total,
\* else compliant/total as a percentage to the nearest tenth
RateIs(rate, compliant, total) ==
    IF total = 0
      THEN rate = [tenths |-> 0, decimals |-> 0]
      ELSE /\ rate.decimals = 1
           /\ 2 * (rate.tenths * total - 1000 * compliant) <= total
           /\ 2 * (1000 * compliant - rate.tenths * total) <= total

\* C21: in a completed result the totals are the numbers of analysed
\* identities and access records, the compliant counts the numbers of those
\* with is_compliant true, every rate is compliant/total, and a rate over
\* an empty total is "0%"; an audit of nothing completes with three "0%".
C21_CountsAndRates ==
    Completed =>
        LET sm == trial.outcome.summary
            ci == Cardinality(CompliantOnes(trial.identity_results))
            ca == Cardinality(CompliantOnes(trial.access_results))
            ni == Len(trial.identities)
            na == Len(trial.access_records)
        IN /\ sm.total_identities = ni
           /\ sm.total_access_records = na
           /\ sm.compliant_identities = ci
           /\ sm.compliant_access_records = ca
           /\ RateIs(sm.identity_compliance_rate, ci, ni)
           /\ RateIs(sm.access_compliance_rate, ca, na)
           /\ RateIs(sm.overall_compliance_rate, ci + ca, ni + na)

\* the audit of no identity and no access record, completed
C21_Witness ==
    /\ Completed
    /\ trial.identities = <<>> /\ trial.access_records = <<>>
    /\ trial.outcome.summary.overall_compliance_rate.decimals = 0

\* the results of a list with a risk_score above 0.7
AboveSeven(results) ==
    {i \in DOMAIN results : results[i].analysis.risk_score > 7}

\* C22: in a completed result high_risk_items is the number of analysed
\* records of both kinds whose risk_score is above 0.7; a record at 0.7
\* exactly is not counted.
C22_HighRiskItems ==
    Completed =>
        trial.outcome.summary.high_risk_items
          = Cardinality(AboveSeven(trial.identity_results))
            + Cardinality(AboveSeven(trial.access_results))

\* an audit with one record above 0.7 and one at 0.7, counted as one
C22_Witness ==
    /\ Completed
    /\ \E i \in DOMAIN trial.identity_results :
          trial.identity_results[i].analysis.risk_score > 7
    /\ \E i \in DOMAIN trial.access_results :
          trial.access_results[i].analysis.risk_score = 7
    /\ trial.outcome.summary.high_risk_items = 1

\* the five entries in their order
Entries ==
    <<"Review N high-risk identities",
      "Disable access for N terminated users",
      "Address N segregation of duties violations",
      "Renew N expired certifications",
      "Review N privileged access grants">>

\* how many records of the audit on trial meet each of the five conditions
Matches ==
    <<Cardinality(AboveSeven(trial.identity_results)),
      Cardinality({i \in DOMAIN trial.identities :
                      trial.identities[i].status = "Terminated"}),
      Cardinality({i \in DOMAIN trial.access_results :
                      Tagged(trial.access_results[i].analysis,
                             "Segregation of duties violation")}),
      Cardinality({i \in DOMAIN trial.access_records :
                      trial.access_records[i].certificationStatus = "Expired"}),
      Cardinality({i \in DOMAIN trial.access_records :
                      trial.access_records[i].isPrivileged})>>

\* C23: the recommendations hold, in the fixed order, one entry for each of
\* the five conditions that applies, with the exact number of matching
\* records; they are the single entry 'No major compliance issues
\* detected' exactly when no condition applies; they are never empty.
C23_Recommendations ==
    Completed =>
        LET recs == trial.outcome.recommendations
            none == <<[text |-> "No major compliance issues detected", count |-> 0]>>
        IN /\ recs # <<>>
           /\ recs = none <=> \A k \in 1..5 : Matches[k] = 0
           /\ \A k \in 1..5 :
                Matches[k] > 0 <=>
                  \E j \in DOMAIN recs :
                     recs[j] = [text |-> Entries[k], count |-> Matches[k]]
           /\ recs # none =>
                \A j \in DOMAIN recs :
                   \E k \in 1..5 :
                      /\ recs[j].text = Entries[k]
                      /\ \A i \in 1..(j - 1) :
                            \E h \in 1..(k - 1) : recs[i].text = Entries[h]

\* an audit in which all five conditions apply
C23_Witness ==
    /\ Completed
    /\ Len(trial.outcome.recommendations) = 5

\* C24: a completed result details at most 5 identity results and at most
\* 5 access results, the first min(5, n) of each list in the order of
\* analysis, while the totals stay the numbers of records analysed.
C24_DetailedResultsCapped ==
    Completed =>
        LET d == trial.outcome.detailed_results
            firstOf(shown, results) ==
                /\ Len(shown) <= 5
                /\ Len(shown) = IF Len(results) < 5 THEN Len(results) ELSE 5
                /\ \A i \in 1..Len(shown) : shown[i] = results[i]
        IN /\ firstOf(d.identities, trial.identity_results)
           /\ firstOf(d.access_records, trial.access_results)
           /\ trial.outcome.summary.total_identities = Len(trial.identities)
           /\ trial.outcome.summary.total_access_records
                = Len(trial.access_records)
           /\ Len(trial.identity_results) = Len(trial.identities)
           /\ Len(trial.access_results) = Len(trial.access_records)

\* an audit of more than five identities
C24_Witness ==
    /\ Completed
    /\ Len(trial.identities) > 5
    /\ Len(trial.outcome.detailed_results.identities) = 5
    /\ trial.outcome.summary.total_identities = Len(trial.identities)

\* C27: an analysis by the model starts from the record's riskScore (0.5 if
\* it has none): it returns that score unchanged when is_compliant is
\* true, and the larger of that score and 0.7 when is_compliant is false.
C27_ModelRiskFloor ==
    \A a \in Returned :
        a.analysis_type = "ai_model" =>
            LET provided == IF "riskScore" \in DOMAIN trial.record
                              THEN trial.record.riskScore ELSE 5
            IN IF a.is_compliant
                 THEN a.risk_score = provided
                 ELSE /\ a.risk_score >= 7
                      /\ a.risk_score = IF provided > 7 THEN provided ELSE 7

\* a model analysis that is not compliant, lifted from below 0.7 to 0.7
C27_Witness ==
    /\ trial.phase = "analysed"
    /\ trial.first.analysis_type = "ai_model"
    /\ ~trial.first.is_compliant
    /\ "riskScore" \in DOMAIN trial.record
    /\ trial.record.riskScore < 7
    /\ trial.first.risk_score = 7

\* ------------------------------------------ claims on the audit history
\* the call r of run_full_compliance_audit comes to its end in this step
Ends(r) ==
    /\ runs[r].pc \in {"health", "collect", "analyze", "summarize"}
    /\ runs'[r].pc \in {"returned", "raised"}

\* C25: the history is append-only with one entry per run: a step in which
\* a run ends, completed or failed, appends exactly that run's result, and
\* no other step changes the history.
C25_HistoryAppendOnly ==
    [][IF \E r \in Runs : Ends(r)
         THEN \E r \in Runs :
                 /\ Ends(r)
                 /\ audit_results' = Append(audit_results, runs'[r].result)
         ELSE audit_results' = audit_results]_vars

\* ------------------------------------------ claims on the identity lookup
\* the identities the source holds under the id asked for
Known ==
    {i \in DOMAIN trial.stored.identities :
        trial.stored.identities[i].id = trial.identity_id}

\* the access records the source holds for the id asked for
AccessOfAsked ==
    SelectSeq(trial.stored.access_records,
              LAMBDA r : r.identityId = trial.identity_id)

\* C26: with the source reached, get_identity_details returns
\* {error: 'Identity not found'} for an id the source does not know, and
\* for an id it knows the identity of that id, its analysis and one
\* analysis per access record of that identity.
C26_IdentityDetails ==
    (trial.phase = "looked_up"
       /\ trial.reached.identities /\ trial.reached.access_records)
    => IF Known = {}
         THEN trial.details = [error |-> "Identity not found"]
         ELSE /\ "identity" \in DOMAIN trial.details
              /\ trial.details.identity.id = trial.identity_id
              /\ trial.details.identity_analysis
                   = AnalyzeIdentityRisk(trial.details.identity, trial.model, trial.now)
              /\ Len(trial.details.access_records) = Len(AccessOfAsked)
              /\ \A i \in DOMAIN AccessOfAsked :
                    trial.details.access_records[i].access_record = AccessOfAsked[i]

\* ------------------------------------------- claims on the status reads
\* the server thread h has read the registry for GET /audit/status
HasRead(h) == handlers[h].pc = "respond" /\ handlers[h].resp = "status"

\* C28: a status read that observes audit_status completed or error
\* observes, in the same read, a current_audit that is not null.
C28_FinishedReadHasResult ==
    \A h \in Handlers :
        (HasRead(h) /\ handlers[h].seen_status \in {"completed", "error"})
        => handlers[h].seen_audit # None

\* C29: a status read that observes audit_status running observes
\* current_audit null: no result is visible together with status running.
C29_RunningReadHasNoResult ==
    \A h \in Handlers :
        (HasRead(h) /\ handlers[h].seen_status = "running")
        => handlers[h].seen_audit = None

\* --------------------------------------------------- claims on the run ids
\* C30: the audit_id of the results in the audit history are pairwise
\* distinct, also when two audits start within the same second.
C30_RunIdsDistinct ==
    \A i, j \in 1..Len(audit_results) :
        i # j => audit_results[i].audit_id # audit_results[j].audit_id
====
